---- MODULE Spec2Model ----
(***************************************************************************)
(* Inverse kinematics as a nonlinear program (src/src/InverseKinematics.hpp)*)
(*                                                                         *)
(* The module models the variable set IKVariables, the cost term IKCost    *)
(* and the driver inverse_kinematics.  Two specifications are given:       *)
(*   Spec    the two components under an arbitrary caller of their public  *)
(*           methods (any argument the signatures admit);                  *)
(*   SpecIK  one call of inverse_kinematics, the external solver being a   *)
(*           black box that calls the components' methods in any order.    *)
(*                                                                         *)
(* Numbers.  Costs are kept in millionths (the regularisation weight 1e-6  *)
(* becomes 1), so all arithmetic is exact integer arithmetic.  The         *)
(* kinematic chain (ForwardKinematics.hpp, not part of the modelled file)  *)
(* is a planar chain of unit links whose joint values count quarter turns, *)
(* so that every rotation matrix has integer entries.                      *)
(***************************************************************************)
EXTENDS Integers, Sequences, FiniteSets, TLC

VARIABLES model, source_link_name, target_link_name, desired_pose,
          q, rows, latest, last, ik

vars == <<model, source_link_name, target_link_name, desired_pose,
          q, rows, latest, last, ik>>

(***************************************************************************)
(* Bounds of the model                                                     *)
(***************************************************************************)
\* largest number of degrees of freedom n_q of a model
MaxNq == 2

(***************************************************************************)
(* Program constants                                                       *)
(***************************************************************************)
\* M_PI in millionths of a radian
M_PI == 3141593
\* cost unit: 1 / 1e-6, the inverse of the regularisation weight
Scale == 1000000
\* the regularisation weight 1e-6 in cost units
RegWeight == 1
\* the orientation gain
OrientationGain == 50
\* the translation weight
TranslationWeight == 1

ConfigurationVector == "configuration_vector"
OtherVarSet == "var_set1"
VarSetNames == {ConfigurationVector, OtherVarSet}

(***************************************************************************)
(* Input domains                                                           *)
(***************************************************************************)
QVals == {-1, 0, 1}
VecOfLen(n) == [1..n -> QVals]
\* vectors shorter than, as long as and longer than any n_q
Vecs == UNION {VecOfLen(n) : n \in 0..(MaxNq + 1)}

\* the initial guesses and the iterates of a solve
SolverVals == {0, 1}
SolverVecOfLen(n) == [1..n -> SolverVals]
Guesses == UNION {SolverVecOfLen(n) : n \in 0..(MaxNq + 1)}

Links == {"base", "tip"}
GhostLink == "ghost"
LinkPairs == {<<"base", "tip">>, <<"tip", "base">>,
              <<GhostLink, "tip">>, <<"base", GhostLink>>}

(***************************************************************************)
(* Linear algebra on integer matrices (Eigen)                              *)
(***************************************************************************)
\* Eigen evaluates an expression into a stored matrix: the sequence with
\* every coefficient computed
Eval(s) == SubSeq(s, 1, Len(s))

RECURSIVE SumSeq(_)
SumSeq(s) == IF s = <<>> THEN 0 ELSE s[1] + SumSeq(Tail(s))

Dot(a, b) == SumSeq(Eval([i \in 1..Len(a) |-> a[i] * b[i]]))

Identity(n) ==
    Eval([i \in 1..n |-> Eval([j \in 1..n |-> IF i = j THEN 1 ELSE 0])])

Column(A, j) == Eval([i \in 1..Len(A) |-> A[i][j]])

Transpose(A) == Eval([j \in 1..Len(A[1]) |-> Column(A, j)])

MatMul(A, B) ==
    Eval([i \in 1..Len(A) |->
            Eval([j \in 1..Len(B[1]) |-> Dot(A[i], Column(B, j))])])

MatVec(A, v) == Eval([i \in 1..Len(A) |-> Dot(A[i], v)])

MatSub(A, B) ==
    Eval([i \in 1..Len(A) |-> Eval([j \in 1..Len(A[i]) |-> A[i][j] - B[i][j]])])

VecSub(a, b) == Eval([i \in 1..Len(a) |-> a[i] - b[i]])

VecAdd(a, b) == Eval([i \in 1..Len(a) |-> a[i] + b[i]])

Negate(a) == Eval([i \in 1..Len(a) |-> -a[i]])

DiagonalSum(A) == SumSeq(Eval([i \in 1..Len(A) |-> A[i][i]]))

(***************************************************************************)
(* Rigid transforms and the kinematic chain                                *)
(***************************************************************************)
Cos4(k) == CASE k % 4 = 0 -> 1 [] k % 4 = 1 -> 0 [] k % 4 = 2 -> -1 [] OTHER -> 0
Sin4(k) == CASE k % 4 = 0 -> 0 [] k % 4 = 1 -> 1 [] k % 4 = 2 -> 0 [] OTHER -> -1

RotZ(k) == << <<Cos4(k), -Sin4(k), 0>>,
              <<Sin4(k),  Cos4(k), 0>>,
              <<0, 0, 1>> >>

Transform(R, p) == [linear |-> R, translation |-> p]

IdentityTransform == Transform(Identity(3), <<0, 0, 0>>)

Compose(A, B) ==
    Transform(MatMul(A.linear, B.linear),
              VecAdd(MatVec(A.linear, B.translation), A.translation))

Inverse(A) ==
    Transform(Transpose(A.linear),
              MatVec(Transpose(A.linear), Negate(A.translation)))

\* one revolute joint about z followed by a unit link along x
JointTransform(a) == Transform(RotZ(a), MatVec(RotZ(a), <<1, 0, 0>>))

RECURSIVE Chain(_, _)
Chain(qv, n) ==
    IF n = 0 THEN IdentityTransform
    ELSE Compose(Chain(qv, n - 1), JointTransform(qv[n]))

HasLink(m, name) == name \in m.links

\* forward_kinematics(model, q, source, target) for links of the model
forward_kinematics(m, qv, s, t) ==
    CASE s = t -> IdentityTransform
      [] s = "base" /\ t = "tip" -> Chain(qv, m.n_q)
      [] s = "tip" /\ t = "base" -> Inverse(Chain(qv, m.n_q))
      [] OTHER -> IdentityTransform

\* what the evaluator may do when a link is missing: raise, or go on
MissingLinkOutcomes == {"threw", "ok"}

DesiredPoses == { Transform(RotZ(0), <<1, 1, 0>>),
                  Transform(RotZ(1), <<0, 1, 0>>),
                  Transform(RotZ(2), <<3, 0, 0>>) }

Models == {[n_q |-> n, links |-> Links] : n \in 1..MaxNq}


(***************************************************************************)
(* Sparse Jacobian blocks (ifopt Jacobian = Eigen sparse matrix).          *)
(* Column i of the code (0-based) is position i + 1 of coef.               *)
(***************************************************************************)
\* a structural zero: no coefficient stored
NoEntry == [wrt |-> 0, at |-> <<>>]
\* a coefficient left in a block by an earlier use
StaleEntry == [wrt |-> -1, at |-> <<>>]

\* jac.resize(r, c): every stored coefficient is dropped
Resize(r, c) == [rows |-> r, cols |-> c, coef |-> [j \in 1..c |-> NoEntry]]

\* jac.coeffRef(0, i) = v
CoeffRefAssign(jac, i, v) == [jac EXCEPT !.coef[i + 1] = v]

NoBlock == Resize(0, 0)

\* the blocks a caller hands to FillJacobianBlock for a model with n columns
InBlocks(n) == { Resize(1, n),
                 [rows |-> 1, cols |-> n, coef |-> [j \in 1..n |-> StaleEntry]] }

(***************************************************************************)
(* Calls and their observable results                                      *)
(***************************************************************************)
\* op: the latest call; after_set: whether the call before it was
\* SetVariables; the arguments it was given
\* and what it returned; outcome: "ok", "threw" (an exception left the call),
\* "aborted" (an Eigen assertion ended the process) or "ub" (the same size
\* violation in an unchecked build); evals: evaluations of cost it made; oob:
\* whether it read outside the computed Jacobian
NoCall == [op |-> "construct", after_set |-> FALSE, qin |-> <<>>, var_set |-> "",
           jac_in |-> NoBlock, jac_out |-> NoBlock,
           values |-> <<>>, bounds |-> <<>>, cost |-> 0,
           outcome |-> "ok", evals |-> 0, oob |-> FALSE]

\* the driver: where inverse_kinematics stands, its argument q0, how often the
\* solver was started, whether the solver has called into the problem, the
\* solver's final status and the vector returned
NotCalled == [pc |-> "none", q0 |-> <<>>, solves |-> 0, queried |-> FALSE,
              status |-> "none", result |-> <<>>]

\* the process is gone once an Eigen assertion has fired
Running == last.outcome # "aborted"

(***************************************************************************)
(* IKVariables                                                             *)
(***************************************************************************)
\* Eigen assignment to a dynamic vector: the destination takes the size and
\* the coefficients of the source
EigenAssign(dst, src) == src

\* a constructor that sizes q and never copies the seed
IKVariablesUnseeded(m, q0) ==
    [rows |-> m.n_q, q |-> [i \in 1..m.n_q |-> 0]]

\* the constructor: VariableSet(_model->n_q, name); q.resize(n_q); q = q0
IKVariables(m, q0) ==
    LET resized == [i \in 1..m.n_q |-> 0]
    IN  [rows |-> m.n_q, q |-> EigenAssign(resized, q0)]

GetRows == rows

\* a SetVariables whose copy stops one component short: the last component
\* keeps its previous value
DoSetVariablesOneShort(qin) ==
    /\ q' = [i \in 1..Len(qin) |->
               IF i < Len(qin) THEN qin[i]
               ELSE IF i <= Len(q) THEN q[i] ELSE 0]
    /\ latest' = qin
    /\ last' = [NoCall EXCEPT !.op = "SetVariables", !.qin = qin,
                          !.after_set = (last.op = "SetVariables")]
    /\ UNCHANGED <<model, source_link_name, target_link_name, desired_pose, rows>>

\* void SetVariables(const VectorXd& qin) { q = qin; }
DoSetVariables(qin) ==
    /\ q' = EigenAssign(q, qin)
    /\ latest' = qin
    /\ last' = [NoCall EXCEPT !.op = "SetVariables", !.qin = qin,
                          !.after_set = (last.op = "SetVariables")]
    /\ UNCHANGED <<model, source_link_name, target_link_name, desired_pose, rows>>

\* VectorXd GetValues() const { return q; }
DoGetValues ==
    /\ last' = [NoCall EXCEPT !.op = "GetValues", !.values = q,
                          !.after_set = (last.op = "SetVariables")]
    /\ UNCHANGED <<model, source_link_name, target_link_name, desired_pose,
                   q, rows, latest>>

\* the loop of GetBounds: bounds.at(i) = {-M_PI, M_PI} for i in [0, GetRows())
RECURSIVE BoundsLoop(_, _, _)
BoundsLoop(bounds, i, n) ==
    IF i >= n THEN bounds
    ELSE BoundsLoop([bounds EXCEPT ![i + 1] = <<-M_PI, M_PI>>], i + 1, n)

\* VecBound bounds(GetRows()) holds default bounds (0, 0) before the loop
BoundsOf(n) == BoundsLoop([i \in 1..n |-> <<0, 0>>], 0, n)

\* GetBounds sized by the stored vector where the code has GetRows()
DoGetBoundsSizedByQ ==
    /\ last' = [NoCall EXCEPT !.op = "GetBounds", !.bounds = BoundsOf(Len(q)),
                          !.after_set = (last.op = "SetVariables")]
    /\ UNCHANGED <<model, source_link_name, target_link_name, desired_pose,
                   q, rows, latest>>

DoGetBounds ==
    /\ last' = [NoCall EXCEPT !.op = "GetBounds", !.bounds = BoundsOf(GetRows),
                          !.after_set = (last.op = "SetVariables")]
    /\ UNCHANGED <<model, source_link_name, target_link_name, desired_pose,
                   q, rows, latest>>

(***************************************************************************)
(* IKCost                                                                  *)
(***************************************************************************)
\* the cost with the orientation error taken once instead of squared
costLinearOrientation(qv, m, s, t, pose) ==
    LET Hst_current == forward_kinematics(m, qv, s, t)
        R_v_r == MatMul(pose.linear, Transpose(Hst_current.linear))
        orientation_error == DiagonalSum(MatSub(Identity(3), R_v_r))
        d == VecSub(Hst_current.translation, pose.translation)
    IN  << << Scale * TranslationWeight * Dot(d, d)
              + RegWeight * Dot(qv, qv)
              + Scale * OrientationGain * orientation_error >> >>

\* static cost(q, model, source, target, desired_pose): a 1 x 1 matrix
cost(qv, m, s, t, pose) ==
    LET Hst_current == forward_kinematics(m, qv, s, t)
        Rst_current == Hst_current.linear
        Rst_desired == pose.linear
        R_v_r == MatMul(Rst_desired, Transpose(Rst_current))
        orientation_error == DiagonalSum(MatSub(Identity(3), R_v_r))
        W == Identity(m.n_q)
        K == Identity(3)
        d == VecSub(Hst_current.translation, pose.translation)
    IN  << << Scale * TranslationWeight * Dot(d, MatVec(K, d))
              + RegWeight * Dot(qv, MatVec(W, qv))
              + Scale * (orientation_error * OrientationGain * orientation_error) >> >>

\* what one evaluation of cost can do: the evaluator may raise on a missing
\* link; W * q with q.size() # n_q is an Eigen size violation (an assertion
\* in a checked build, an out-of-range read otherwise)
EvalOutcomes(qv, m, s, t) ==
    LET sized == IF Len(qv) = m.n_q THEN {"ok"} ELSE {"aborted", "ub"}
    IN  IF HasLink(m, s) /\ HasLink(m, t) THEN sized
        ELSE IF "ok" \in MissingLinkOutcomes THEN sized \cup {"threw"}
        ELSE {"threw"}

\* values an out-of-range evaluation may produce
GarbageCosts == {-1, 0}

\* Scalar GetCost() const
DoGetCost ==
    /\ \E o \in EvalOutcomes(q, model, source_link_name, target_link_name) :
        \E c \in (IF o = "ok"
                  THEN {cost(q, model, source_link_name, target_link_name,
                             desired_pose)[1][1]}
                  ELSE IF o = "ub" THEN GarbageCosts ELSE {0}) :
            last' = [NoCall EXCEPT !.op = "GetCost", !.outcome = o,
                                   !.cost = c, !.evals = 1,
                                   !.after_set = (last.op = "SetVariables")]
    /\ UNCHANGED <<model, source_link_name, target_link_name, desired_pose,
                   q, rows, latest>>

\* jacobian(cost, wrt(q_auto), at(q_auto, ...), F): 1 x q_auto.size(); entry
\* i is the partial derivative of the cost by q(i) at q_auto
JacobianOfCost(qv) == << [i \in 1..Len(qv) |-> [wrt |-> i, at |-> qv]] >>

\* for (i = 0; i < model->n_q; i++) jac.coeffRef(0, i) = J(0, i);
RECURSIVE FillLoop(_, _, _, _)
FillLoop(jac, J, i, n) ==
    IF i >= n \/ i >= Len(J[1]) THEN jac
    ELSE FillLoop(CoeffRefAssign(jac, i, J[1][i + 1]), J, i + 1, n)

\* the body of FillJacobianBlock under var_set == "configuration_vector"
FillConfigurationBlock(qv, m) ==
    LET J == JacobianOfCost(qv)
    IN  FillLoop(Resize(Len(J), Len(J[1])), J, 0, m.n_q)

\* FillJacobianBlock without the test of the variable set's name
DoFillJacobianBlockAnyName(var_set, jac) ==
    /\ \E o \in EvalOutcomes(q, model, source_link_name, target_link_name) :
         last' = [NoCall EXCEPT
                    !.op = "FillJacobianBlock", !.var_set = var_set,
                    !.jac_in = jac, !.outcome = o, !.evals = 1,
                    !.after_set = (last.op = "SetVariables"),
                    !.oob = (o = "ub" /\ model.n_q > Len(q)),
                    !.jac_out = IF o \in {"ok", "ub"}
                                THEN FillConfigurationBlock(q, model)
                                ELSE jac]
    /\ UNCHANGED <<model, source_link_name, target_link_name, desired_pose,
                   q, rows, latest>>

\* void FillJacobianBlock(std::string var_set, Jacobian& jac) const
DoFillJacobianBlock(var_set, jac) ==
    /\ IF var_set = ConfigurationVector
       THEN \E o \in EvalOutcomes(q, model, source_link_name, target_link_name) :
              last' = [NoCall EXCEPT
                         !.op = "FillJacobianBlock", !.var_set = var_set,
                         !.jac_in = jac, !.outcome = o, !.evals = 1,
                         !.after_set = (last.op = "SetVariables"),
                         !.oob = (o = "ub" /\ model.n_q > Len(q)),
                         !.jac_out = IF o \in {"ok", "ub"}
                                     THEN FillConfigurationBlock(q, model)
                                     ELSE jac]
       ELSE last' = [NoCall EXCEPT
                         !.op = "FillJacobianBlock", !.var_set = var_set,
                         !.jac_in = jac, !.jac_out = jac,
                         !.after_set = (last.op = "SetVariables")]
    /\ UNCHANGED <<model, source_link_name, target_link_name, desired_pose,
                   q, rows, latest>>

(***************************************************************************)
(* Spec: the components under an arbitrary caller                          *)
(***************************************************************************)
Init ==
    /\ model \in Models
    /\ \E p \in LinkPairs : source_link_name = p[1] /\ target_link_name = p[2]
    /\ desired_pose \in DesiredPoses
    /\ \E q0 \in Vecs :
         /\ q = IKVariables(model, q0).q
         /\ rows = IKVariables(model, q0).rows
         /\ latest = q0
    /\ last = NoCall
    /\ ik = NotCalled

SetVariables ==
    /\ Running
    /\ \E qin \in Vecs : DoSetVariables(qin)
    /\ UNCHANGED ik

GetValues == Running /\ DoGetValues /\ UNCHANGED ik

GetBounds == Running /\ DoGetBounds /\ UNCHANGED ik

GetCost == Running /\ DoGetCost /\ UNCHANGED ik

FillJacobianBlock ==
    /\ Running
    /\ \E var_set \in VarSetNames : \E jac \in InBlocks(model.n_q) :
         DoFillJacobianBlock(var_set, jac)
    /\ UNCHANGED ik

Next == SetVariables \/ GetValues \/ GetBounds \/ GetCost \/ FillJacobianBlock

Spec == Init /\ [][Next]_vars


(***************************************************************************)
(* SpecIK: one call of inverse_kinematics(model, source, target, pose, q0) *)
(***************************************************************************)
SolverStatuses == {"converged", "max_iter", "failed"}

InitIK ==
    /\ model \in Models
    /\ \E p \in LinkPairs : source_link_name = p[1] /\ target_link_name = p[2]
    /\ desired_pose \in DesiredPoses
    /\ q = <<>>
    /\ rows = 0
    /\ latest = <<>>
    /\ last = NoCall
    /\ \E q0 \in Guesses : ik = [NotCalled EXCEPT !.pc = "entry", !.q0 = q0]

\* the model is cast, the variable set and the cost term are added to the
\* problem; nothing is validated
IK_Build ==
    /\ ik.pc = "entry"
    /\ q' = IKVariables(model, ik.q0).q
    /\ rows' = IKVariables(model, ik.q0).rows
    /\ latest' = ik.q0
    /\ ik' = [ik EXCEPT !.pc = "built"]
    /\ UNCHANGED <<model, source_link_name, target_link_name, desired_pose, last>>

\* the solver is configured and ipopt.Solve(nlp) is entered
IK_Solve ==
    /\ ik.pc = "built"
    /\ ik' = [ik EXCEPT !.pc = "solving", !.solves = @ + 1]
    /\ UNCHANGED <<model, source_link_name, target_link_name, desired_pose,
                   q, rows, latest, last>>

\* the driver after a call the solver made: an exception of the evaluator
\* either leaves inverse_kinematics or is turned into a failure status by the
\* solver
AfterSolverCall ==
    \/ /\ last'.outcome # "threw"
       /\ ik' = [ik EXCEPT !.queried = TRUE]
    \/ /\ last'.outcome = "threw"
       /\ \/ ik' = [ik EXCEPT !.queried = TRUE, !.pc = "raised"]
          \/ ik' = [ik EXCEPT !.queried = TRUE, !.pc = "solved",
                              !.status = "failed"]

InSolve == ik.pc = "solving" /\ Running

\* the solver sets its iterate: always a segment of GetRows() components
Solver_SetVariables ==
    /\ InSolve
    /\ \E x \in SolverVecOfLen(GetRows) : DoSetVariables(x)
    /\ AfterSolverCall

Solver_GetValues == InSolve /\ DoGetValues /\ AfterSolverCall

Solver_GetBounds == InSolve /\ DoGetBounds /\ AfterSolverCall

Solver_GetCost == InSolve /\ DoGetCost /\ AfterSolverCall

\* the problem hands the cost term an empty 1 x GetRows() block per variable set
Solver_FillJacobianBlock ==
    /\ InSolve
    /\ DoFillJacobianBlock(ConfigurationVector, Resize(1, GetRows))
    /\ AfterSolverCall

\* ipopt.Solve(nlp) comes back: converged, out of iterations, or failed
Solver_Finish ==
    /\ ik.pc = "solving"
    /\ Running
    /\ \E st \in SolverStatuses : ik' = [ik EXCEPT !.pc = "solved", !.status = st]
    /\ UNCHANGED <<model, source_link_name, target_link_name, desired_pose,
                   q, rows, latest, last>>

\* a driver that hands back its initial guess
IK_ReturnGuess ==
    /\ ik.pc = "solved"
    /\ ik' = [ik EXCEPT !.pc = "returned", !.result = ik.q0]
    /\ UNCHANGED <<model, source_link_name, target_link_name, desired_pose,
                   q, rows, latest, last>>

\* q = nlp.GetOptVariables()->GetValues(); return q;
IK_Return ==
    /\ ik.pc = "solved"
    /\ ik' = [ik EXCEPT !.pc = "returned", !.result = q]
    /\ UNCHANGED <<model, source_link_name, target_link_name, desired_pose,
                   q, rows, latest, last>>

NextIK ==
    \/ IK_Build \/ IK_Solve
    \/ Solver_SetVariables \/ Solver_GetValues \/ Solver_GetBounds
    \/ Solver_GetCost \/ Solver_FillJacobianBlock
    \/ Solver_Finish \/ IK_Return

SpecIK == InitIK /\ [][NextIK]_vars


(***************************************************************************)
(* Properties                                                              *)
(***************************************************************************)
LinksKnown == HasLink(model, source_link_name) /\ HasLink(model, target_link_name)

Readers == {"GetValues", "GetBounds", "GetCost", "FillJacobianBlock"}

\* C1: a call of inverse_kinematics whose initial guess q0 has a length other
\* than n_q fails before the solver is started: the solver is never entered,
\* it makes no call into the problem (no cost, no Jacobian, no SetVariables)
\* and no configuration vector is returned.
C1_WrongGuessFailsBeforeSolve ==
    (ik.pc # "none" /\ Len(ik.q0) # model.n_q) =>
        /\ ik.solves = 0
        /\ ~ik.queried
        /\ ik.pc \notin {"solving", "solved", "returned"}

\* C2: SetVariables(v) with Len(v) # n_q on a variable set holding n_q values
\* signals an error and leaves the stored vector as it was.
C2_WrongLengthRejected ==
    [][ (Len(q) = model.n_q /\ last'.op = "SetVariables"
         /\ Len(last'.qin) # model.n_q)
        => (last'.outcome # "ok" /\ q' = q) ]_vars

\* C3: after SetVariables(v) with Len(v) = n_q the stored vector is v, whatever
\* it was before, and a GetValues() that follows at once returns exactly v.
C3_SetThenGetRoundTrip ==
    /\ (last.op = "SetVariables" /\ Len(last.qin) = model.n_q) =>
           (q = last.qin /\ Len(q) = model.n_q)
    /\ (last.op = "GetValues" /\ last.after_set /\ Len(latest) = model.n_q) =>
           (last.values = latest /\ Len(last.values) = model.n_q)

C3_Witness ==
    /\ last.op = "GetValues" /\ last.after_set
    /\ Len(latest) = model.n_q
    /\ last.values = latest
    /\ \E i \in 1..Len(latest) : latest[i] # 0

\* C4: GetBounds() returns exactly n_q pairs, each (-pi, +pi), lower <= upper,
\* in every state, whatever the stored vector is.
C4_BoundsArePlusMinusPi ==
    last.op = "GetBounds" =>
        /\ Len(last.bounds) = model.n_q
        /\ \A i \in 1..Len(last.bounds) :
             /\ last.bounds[i] = <<-M_PI, M_PI>>
             /\ last.bounds[i][1] <= last.bounds[i][2]

C4_Witness ==
    /\ last.op = "GetBounds"
    /\ Len(last.bounds) = model.n_q
    /\ Len(q) > model.n_q

\* C5: one call of inverse_kinematics starts the solver at most once, and once
\* the solver has come back with any status (converged, out of iterations,
\* failed) the call goes on to return, without raising and without a second
\* solve, the values the variable set holds at that moment.
C5_ReturnsWhatTheSolverLeft ==
    /\ ik.solves <= 1
    /\ ik.pc \in {"solving", "solved", "returned"} => ik.solves = 1
    /\ ik.status \in SolverStatuses => ik.pc \in {"solved", "returned"}
    /\ ik.pc = "solved" => ENABLED IK_Return
    /\ ik.pc = "returned" => (ik.result = q /\ ik.result = latest)

C5_Witness ==
    /\ ik.pc = "returned"
    /\ ik.status = "failed"
    /\ ik.solves = 1
    /\ Len(ik.q0) = model.n_q
    /\ ik.result = q
    /\ ik.result # ik.q0

\* C6: a call of inverse_kinematics whose source or target link is not a link
\* of the model fails before the solver is started and before any evaluation
\* of the cost or of its Jacobian.
C6_UnknownLinkFailsBeforeSolve ==
    (ik.pc # "none" /\ ~LinksKnown) =>
        /\ ik.solves = 0
        /\ ~ik.queried
        /\ ik.pc \notin {"solving", "solved", "returned"}

\* C7: in every state the stored q has n_q components, and after
\* FillJacobianBlock("configuration_vector", block) the block is 1 x n_q with
\* every column written from the Jacobian at the current values, nothing
\* outside the computed Jacobian having been read.
C7_LengthIsNqAndBlockIsFull ==
    /\ Len(q) = model.n_q
    /\ (last.op = "FillJacobianBlock" /\ last.var_set = ConfigurationVector
        /\ last.outcome \in {"ok", "ub"}) =>
           /\ last.jac_out.rows = 1
           /\ last.jac_out.cols = model.n_q
           /\ \A i \in 1..model.n_q :
                last.jac_out.coef[i] = [wrt |-> i, at |-> q]
           /\ ~last.oob

\* C8: FillJacobianBlock(name, block) with a name other than
\* "configuration_vector" leaves the block as it was handed in, dimensions and
\* coefficients, and evaluates no cost.
C8_OtherVarSetUntouched ==
    (last.op = "FillJacobianBlock" /\ last.var_set # ConfigurationVector) =>
        /\ last.jac_out = last.jac_in
        /\ last.evals = 0
        /\ last.outcome = "ok"

C8_Witness ==
    /\ last.op = "FillJacobianBlock"
    /\ last.var_set = OtherVarSet
    /\ last.jac_in.cols = model.n_q
    /\ \A j \in 1..last.jac_in.cols : last.jac_in.coef[j] = StaleEntry
    /\ last.jac_out = last.jac_in

\* C9: the stored vector is the seed q0 after construction and the argument of
\* the latest SetVariables afterwards; GetValues returns it; GetValues,
\* GetBounds, GetCost and FillJacobianBlock change neither the stored vector
\* nor the model nor the desired pose.
C9_OnlySetVariablesWrites ==
    /\ [](q = latest /\ (last.op = "GetValues" => last.values = latest))
    /\ [][ last'.op \in Readers =>
             (q' = q /\ model' = model /\ desired_pose' = desired_pose) ]_vars

C9_Witness ==
    /\ last.op = "GetCost"
    /\ last.after_set
    /\ q = latest
    /\ \E i \in 1..Len(q) : q[i] # 0

\* the three terms of the cost, each from its definition in the text
SquaredDistance(a, b) ==
    (a[1] - b[1]) * (a[1] - b[1]) + (a[2] - b[2]) * (a[2] - b[2])
    + (a[3] - b[3]) * (a[3] - b[3])

RECURSIVE SumOfSquares(_, _)
SumOfSquares(v, n) == IF n = 0 THEN 0 ELSE SumOfSquares(v, n - 1) + v[n] * v[n]

\* trace(I - Rd * Rc^T) = 3 - sum over i, k of Rd[i][k] * Rc[i][k]
RowProduct(Rd, Rc, i) ==
    Rd[i][1] * Rc[i][1] + Rd[i][2] * Rc[i][2] + Rd[i][3] * Rc[i][3]

TraceError(Rd, Rc) ==
    3 - (RowProduct(Rd, Rc, 1) + RowProduct(Rd, Rc, 2) + RowProduct(Rd, Rc, 3))

CurrentPose == forward_kinematics(model, q, source_link_name, target_link_name)

TranslationTerm ==
    Scale * SquaredDistance(CurrentPose.translation, desired_pose.translation)
RegularisationTerm == SumOfSquares(q, Len(q))
OrientationTerm ==
    50 * Scale * TraceError(desired_pose.linear, CurrentPose.linear)
               * TraceError(desired_pose.linear, CurrentPose.linear)

\* C10: the value GetCost returns at a configuration q (n_q components) is the
\* squared distance of the translations, plus 1e-6 * (q . q), plus 50 * e^2
\* with e = trace(I - R_desired * R_current^T), in millionths; it is not
\* negative.
C10_CostIsSumOfThreeTerms ==
    (last.op = "GetCost" /\ last.outcome = "ok") =>
        /\ Len(q) = model.n_q
        /\ last.cost = TranslationTerm + RegularisationTerm + OrientationTerm
        /\ last.cost >= 0

C10_Witness ==
    /\ last.op = "GetCost" /\ last.outcome = "ok"
    /\ LinksKnown
    /\ TranslationTerm > 0
    /\ RegularisationTerm > 0
    /\ OrientationTerm > 0
    /\ last.cost = TranslationTerm + RegularisationTerm + OrientationTerm

====
